---------------------------- MODULE Spec2Model ----------------------------
(***************************************************************************)
(* Model of the review-request notification relay, the Next.js API route   *)
(* src/pages/api/slack.ts.  One request is one run of `handler`; the       *)
(* handler suspends at each `await` (the sent_pr select, the user_map      *)
(* select, the webhook fetch, the sent_pr insert), so requests interleave  *)
(* at exactly those points.  The two Supabase tables and the Slack webhook *)
(* are the environment: a query may fail, the webhook may answer with a    *)
(* non-success status or the fetch may reject.                             *)
(*                                                                         *)
(* The Japanese string literals of the message templates are written here  *)
(* in ASCII; each keeps its place in the template.                         *)
(***************************************************************************)
EXTENDS Integers, Sequences, FiniteSets, TLC

VARIABLES
    sent_pr,       \* table sent_pr: the sequence of rows, in insertion order
    user_map,      \* table user_map: rows (github_id, slack_id)
    req,           \* req[r]: the request r as received, or NoReq
    pc,            \* pc[r]: where handler run r stands
    res,           \* res[r]: the response written through `res`
    slackMessage,  \* slackMessage[r]: the composed payload (handler local)
    calls          \* calls[r]: the external calls run r has made, in order

vars == <<sent_pr, user_map, req, pc, res, slackMessage, calls>>

---------------------------------------------------------------------------
(* Bounds *)

\* requests in flight together under Spec
NumReq == 2

\* requests handled one after another under SpecSeq
SeqReq == 2

\* requests in flight together under SpecRace
RaceReq == 3

---------------------------------------------------------------------------
(* JavaScript values, as far as the handler inspects them *)

Str(s) == [t |-> "string", s |-> s, n |-> 0, frac |-> FALSE, elems |-> <<>>]

\* the number n
Num(n) == [t |-> "number", s |-> "", n |-> n, frac |-> FALSE, elems |-> <<>>]

\* a number with a fractional part, n + 1/2
NumHalf(n) == [t |-> "number", s |-> "", n |-> n, frac |-> TRUE, elems |-> <<>>]

Undefined == [t |-> "undefined", s |-> "", n |-> 0, frac |-> FALSE, elems |-> <<>>]

Null == [t |-> "null", s |-> "", n |-> 0, frac |-> FALSE, elems |-> <<>>]

Arr(es) == [t |-> "array", s |-> "", n |-> 0, frac |-> FALSE, elems |-> es]

\* typeof v
TypeOf(v) == IF v.t \in {"null", "array"} THEN "object" ELSE v.t

\* Array.isArray(v)
IsArray(v) == v.t = "array"

\* Truthy with only null and undefined taken as false
TruthyUnlessNullish(v) == v.t \notin {"null", "undefined"}

\* the truthiness of v, as filter((user) => user.slack_id) tests it
Truthy(v) ==
    CASE v.t = "string" -> v.s # ""
      [] v.t = "number" -> v.n # 0 \/ v.frac
      [] v.t = "array" -> TRUE
      [] OTHER -> FALSE

---------------------------------------------------------------------------
(* Configuration *)

\* process.env.API_KEY, configured
API_KEY == Str("s3cret")

---------------------------------------------------------------------------
(* Requests *)

\* req.body, a JSON object: the six fields the handler destructures
\* (a field the object lacks is undefined)
Body(reviewers, repository, pr_id, pr_url, pr_title, type) ==
    [reviewers |-> reviewers, repository |-> repository, pr_id |-> pr_id,
     pr_url |-> pr_url, pr_title |-> pr_title, type |-> type]

\* what the handler reads of req: req.method, req.headers["x-api-key"], req.body
Request(method, apiKey, body) ==
    [method |-> method, apiKey |-> apiKey, body |-> body]

\* no request received yet
NoReq ==
    Request("", Undefined,
            Body(Undefined, Undefined, Undefined, Undefined, Undefined, Undefined))

NoResponse == [status |-> 0, message |-> ""]

Response(status, message) == [status |-> status, message |-> message]

---------------------------------------------------------------------------
(* The handler's input validation *)

\* reviewers.every((reviewer) => typeof reviewer === "string")
EveryString(v) == \A i \in 1..Len(v.elems) : TypeOf(v.elems[i]) = "string"

\* TypeIncluded with a missing type let through
TypeIncludedOrMissing(type) ==
    type \in {Str("feature"), Str("release"), Str("hotfix"), Undefined}

\* ["feature", "release", "hotfix"].includes(type)
TypeIncluded(type) == type \in {Str("feature"), Str("release"), Str("hotfix")}

\* ValidInput without the test of pr_title
ValidInputTitleUnchecked(b) ==
    /\ IsArray(b.reviewers)
    /\ EveryString(b.reviewers)
    /\ TypeOf(b.repository) = "string"
    /\ TypeOf(b.pr_id) = "number"
    /\ TypeOf(b.pr_url) = "string"
    /\ b.type \in {Str("feature"), Str("release"), Str("hotfix")}

\* the negation of the condition of the `if` that answers 400
ValidInput(b) ==
    /\ IsArray(b.reviewers)
    /\ EveryString(b.reviewers)
    /\ TypeOf(b.repository) = "string"
    /\ TypeOf(b.pr_id) = "number"
    /\ TypeOf(b.pr_url) = "string"
    /\ TypeOf(b.pr_title) = "string"
    /\ TypeIncluded(b.type)

\* Forbidden with the header tested only when it is there
ForbiddenIfPresent(q) == q.apiKey # Undefined /\ q.apiKey # API_KEY

\* apiKey !== process.env.API_KEY
Forbidden(q) == q.apiKey # API_KEY

\* MethodIsPost with only GET turned away
MethodIsNotGet(q) == q.method # "GET"

\* req.method === "POST"
MethodIsPost(q) == q.method = "POST"

---------------------------------------------------------------------------
(* The two tables *)

\* a row of sent_pr; id is the generated key that select("id") reads
Row(id, b) ==
    [id |-> id, repository |-> b.repository, pr_id |-> b.pr_id,
     pr_url |-> b.pr_url, pr_title |-> b.pr_title, type |-> b.type]

\* a row of user_map
UserRow(github_id, slack_id) == [github_id |-> github_id, slack_id |-> slack_id]

\* Matching with pr_id compared to the column id
MatchingById(store, repository, pr_id) ==
    {i \in 1..Len(store) :
        store[i].repository = repository /\ Num(store[i].id) = pr_id}

\* the ids of the rows that .eq("repository", repository).eq("pr_id", pr_id) keeps
Matching(store, repository, pr_id) ==
    {i \in 1..Len(store) :
        store[i].repository = repository /\ store[i].pr_id = pr_id}

\* .single(): the one row, or the error PGRST116 when the rows are none or many
Single(ids) ==
    IF Cardinality(ids) = 1
    THEN [data |-> CHOOSE i \in ids : TRUE, error |-> ""]
    ELSE [data |-> 0, error |-> "PGRST116"]

\* what the awaited sent_pr select can resolve to: the answer, or a failed query
SelectExisting(store, repository, pr_id) ==
    {Single(Matching(store, repository, pr_id)), [data |-> 0, error |-> "FAILED"]}

\* the orders in which the rows of the index set S can come back
Orderings(S) ==
    {f \in [1..Cardinality(S) -> S] :
        \A i, j \in 1..Cardinality(S) : i # j => f[i] # f[j]}

\* the indexes of the rows that .in("github_id", reviewers) keeps
InReviewers(map, reviewers) ==
    {i \in 1..Len(map) :
        \E k \in 1..Len(reviewers.elems) : map[i].github_id = reviewers.elems[k]}

\* what the awaited user_map select can resolve to: the rows' slack_id in some
\* order, or a failed query (no data, and the error)
SelectSlackIds(map, reviewers) ==
    {[isNull |-> FALSE, data |-> [i \in DOMAIN f |-> map[f[i]].slack_id], error |-> ""] :
        f \in Orderings(InReviewers(map, reviewers))}
    \cup {[isNull |-> TRUE, data |-> <<>>, error |-> "FAILED"]}

---------------------------------------------------------------------------
(* The message *)

\* `<@${user.slack_id}>`
Mention(slack_id) == "<@" \o slack_id.s \o ">"

\* userMapData.filter((user) => user.slack_id).map(...)
RECURSIVE ValidSlackIds(_)
ValidSlackIds(data) ==
    IF data = <<>> THEN <<>>
    ELSE (IF Truthy(Head(data)) THEN <<Mention(Head(data))>> ELSE <<>>)
         \o ValidSlackIds(Tail(data))

\* Join that keeps the first element only
JoinFirstOnly(ids, sep) == IF ids = <<>> THEN <<>> ELSE <<Head(ids)>>

\* ids.join(sep), as the sequence of its pieces
RECURSIVE Join(_, _)
Join(ids, sep) ==
    IF ids = <<>> THEN <<>>
    ELSE IF Len(ids) = 1 THEN ids
    ELSE <<Head(ids), sep>> \o Join(Tail(ids), sep)

\* Framing with the hotfix branch never taken
FramingWithoutHotfix(type) ==
    IF type = Str("release")
    THEN [color |-> "warning",
          messageIntro |-> "A release PR has arrived!",
          finalMessage |-> "Please check it for the release!",
          title |-> "Release PR review request"]
    ELSE [color |-> "good",
          messageIntro |-> "A new feature review request has arrived!",
          finalMessage |-> "Please review!",
          title |-> "PR review request"]

\* color, messageIntro, finalMessage and title, set from type
Framing(type) ==
    IF type = Str("release")
    THEN [color |-> "warning",
          messageIntro |-> "A release PR has arrived!",
          finalMessage |-> "Please check it for the release!",
          title |-> "Release PR review request"]
    ELSE IF type = Str("hotfix")
    THEN [color |-> "danger",
          messageIntro |-> "[HOTFIX] An urgent PR!\nPlease review at once!",
          finalMessage |-> "Please act quickly!",
          title |-> "[HOTFIX] PR review request"]
    ELSE [color |-> "good",
          messageIntro |-> "A new feature review request has arrived!",
          finalMessage |-> "Please review!",
          title |-> "PR review request"]

\* slackMessage: one attachment; text is the template's pieces in order
SlackMessage(validSlackIds, b) ==
    LET f == Framing(b.type)
        mentions == Join(validSlackIds, "-san, ")
    IN  [color |-> f.color,
         title |-> f.title,
         text |-> mentions \o
                  <<"-san, ", f.messageIntro,
                    "\n\n[repository]", b.repository.s,
                    "\n[title]", b.pr_title.s,
                    "\n[details]", b.pr_url.s,
                    "\n\n=> ", f.finalMessage>>]

NoMessage == [color |-> "", title |-> "", text |-> <<>>]

---------------------------------------------------------------------------
(* The external calls a run has made *)

\* op: the call; error: "" when the call returned without error;
\* n: rows matched (sent_pr select), rows returned (user_map select),
\*    HTTP status (fetch), id of the inserted row (insert)
Call(op, error, n) == [op |-> op, error |-> error, n |-> n]

\* CheckFailed without the exception for PGRST116
CheckFailedOnAnyError(checkError) == checkError # ""

\* CheckFailed with the comparison of the code turned around
CheckFailedOnNoRows(checkError) == checkError # "" /\ checkError = "PGRST116"

\* ResponseOk that takes any answer of the webhook for a success
ResponseArrived(response) == response.status # 0

\* InsertFailed with the test of `error` turned around
InsertFailedInverted(error) == error = ""

\* checkError && checkError.code !== "PGRST116"
CheckFailed(checkError) == checkError # "" /\ checkError # "PGRST116"

\* UserMapFailed with the test of the data turned around
UserMapFailedOnData(result) == result.error # "" /\ ~result.isNull

\* userMapError || !userMapData
UserMapFailed(result) == result.error # "" \/ result.isNull

\* response.ok
ResponseOk(response) == response.ok

\* the `error` of the insert's result, tested by `if (error)`
InsertFailed(error) == error # ""

\* InsertRow as an upsert on (repository, pr_id): a row of the pair is replaced
InsertRowOrReplace(store, b) ==
    LET ids == Matching(store, b.repository, b.pr_id) IN
    {[store |-> IF ids = {}
                THEN Append(store, Row(Len(store) + 1, b))
                ELSE [i \in DOMAIN store |-> IF i \in ids THEN Row(i, b) ELSE store[i]],
      error |-> ""],
     [store |-> store, error |-> "FAILED"]}

\* what the awaited insert can resolve to: the table with the row added and no
\* error, or the table as it was and an error
InsertRow(store, b) ==
    {[store |-> Append(store, Row(Len(store) + 1, b)), error |-> ""],
     [store |-> store, error |-> "FAILED"]}

\* what the awaited fetch can do: answer 200, answer a non-success status, reject
FetchOutcomes ==
    {[ok |-> TRUE, status |-> 200, error |-> ""],
     [ok |-> FALSE, status |-> 500, error |-> ""],
     [ok |-> FALSE, status |-> 0, error |-> "rejected"]}

---------------------------------------------------------------------------
(* The state after deployment *)

\* user_map as the team keeps it: two reviewers with a handle, one with a null
\* slack_id, one with an empty one
UserMapRows ==
    <<UserRow(Str("alice"), Str("U1")), UserRow(Str("bob"), Str("U2")),
      UserRow(Str("carol"), Null), UserRow(Str("erin"), Str(""))>>

\* sent_pr at the start: empty, or holding the row of one pull request that an
\* earlier run of the handler notified and recorded
InitialStores ==
    {<<>>,
     <<Row(1, Body(Arr(<<Str("alice")>>), Str("org/a"), Num(1), Str("https://a/1"),
                   Str("Add A"), Str("feature")))>>}

InitOf(R) ==
    /\ sent_pr \in InitialStores
    /\ user_map = UserMapRows
    /\ req = [r \in R |-> NoReq]
    /\ pc = [r \in R |-> "idle"]
    /\ res = [r \in R |-> NoResponse]
    /\ slackMessage = [r \in R |-> NoMessage]
    /\ calls = [r \in R |-> <<>>]

---------------------------------------------------------------------------
(* The handler, one action per stretch between two awaits *)

\* res.status(status).json({message}) and the end of the run
Respond(r, status, message) ==
    /\ res' = [res EXCEPT ![r] = Response(status, message)]
    /\ pc' = [pc EXCEPT ![r] = "done"]

\* the run goes on to its next await
Goto(r, label) ==
    /\ pc' = [pc EXCEPT ![r] = label]
    /\ UNCHANGED res

Log(r, call) == calls' = [calls EXCEPT ![r] = Append(@, call)]

\* a request of Q arrives as run r: the API key, the method, the validation
\* (requests are numbered in the order of their arrival)
Receive(r, Q) ==
    /\ pc[r] = "idle"
    /\ \A p \in DOMAIN pc : p < r => pc[p] # "idle"
    /\ \E q \in Q :
         /\ req' = [req EXCEPT ![r] = q]
         /\ IF Forbidden(q)
            THEN Respond(r, 403, "Forbidden: Invalid API key")
            ELSE IF MethodIsPost(q)
            THEN IF ~ValidInput(q.body)
                 THEN Respond(r, 400, "Invalid input")
                 ELSE Goto(r, "checkExisting")
            ELSE Respond(r, 405, "Method not allowed")
    /\ UNCHANGED <<sent_pr, user_map, slackMessage, calls>>

\* the sent_pr select resolves: an error other than PGRST116 answers 500, a row
\* answers 200, otherwise the run goes on
CheckExisting(r) ==
    /\ pc[r] = "checkExisting"
    /\ \E result \in SelectExisting(sent_pr, req[r].body.repository, req[r].body.pr_id) :
         LET checkError == result.error
             existingPr == result.data
             matched == Cardinality(Matching(sent_pr, req[r].body.repository,
                                             req[r].body.pr_id))
         IN  /\ Log(r, Call("select sent_pr", checkError,
                            IF checkError = "FAILED" THEN 0 ELSE matched))
             /\ IF CheckFailed(checkError)
                THEN Respond(r, 500, "Error checking existing PR")
                ELSE IF existingPr # 0
                THEN Respond(r, 200, "PR already processed")
                ELSE Goto(r, "resolve")
    /\ UNCHANGED <<sent_pr, user_map, req, slackMessage>>

\* the user_map select resolves: an error or no data answers 500, no valid
\* slack_id answers 400, otherwise the message is composed
Resolve(r) ==
    /\ pc[r] = "resolve"
    /\ \E result \in SelectSlackIds(user_map, req[r].body.reviewers) :
         LET userMapError == result.error
             validSlackIds == ValidSlackIds(result.data)
         IN  /\ Log(r, Call("select user_map", userMapError, Len(result.data)))
             /\ IF UserMapFailed(result)
                THEN /\ Respond(r, 500, "Error retrieving Slack IDs")
                     /\ UNCHANGED slackMessage
                ELSE IF Len(validSlackIds) = 0
                THEN /\ Respond(r, 400, "No valid Slack IDs found for reviewers")
                     /\ UNCHANGED slackMessage
                ELSE /\ Goto(r, "dispatch")
                     /\ slackMessage' =
                          [slackMessage EXCEPT ![r] = SlackMessage(validSlackIds, req[r].body)]
    /\ UNCHANGED <<sent_pr, user_map, req>>

\* the fetch of the webhook resolves: a response that is not ok answers 500;
\* a rejected fetch throws out of the handler, which then writes no response
Dispatch(r) ==
    /\ pc[r] = "dispatch"
    /\ \E response \in FetchOutcomes :
         /\ Log(r, Call("fetch", response.error, response.status))
         /\ IF response.error # ""
            THEN /\ pc' = [pc EXCEPT ![r] = "done"]
                 /\ UNCHANGED res
            ELSE IF ~ResponseOk(response)
            THEN Respond(r, 500, "Failed to send message to Slack")
            ELSE Goto(r, "record")
    /\ UNCHANGED <<sent_pr, user_map, req, slackMessage>>

\* the sent_pr insert resolves: an error answers 500, otherwise the answer is 201
Record(r) ==
    /\ pc[r] = "record"
    /\ \E result \in InsertRow(sent_pr, req[r].body) :
         /\ sent_pr' = result.store
         /\ Log(r, Call("insert sent_pr", result.error,
                        IF result.error = "" THEN Len(result.store) ELSE 0))
         /\ IF InsertFailed(result.error)
            THEN Respond(r, 500, "Error inserting data")
            ELSE Respond(r, 201, "Data inserted successfully")
    /\ UNCHANGED <<user_map, req, slackMessage>>

\* the steps of the runs R on the requests of Q
NextOf(R, Q) ==
    \E r \in R :
        \/ Receive(r, Q)
        \/ CheckExisting(r)
        \/ Resolve(r)
        \/ Dispatch(r)
        \/ Record(r)

---------------------------------------------------------------------------
(* The requests the specifications draw from *)

Methods == {"POST", "GET", "PUT"}

\* x-api-key: the secret, another string, the empty string, no header
ApiKeys == {API_KEY, Str("wrong"), Str(""), Undefined}

ReviewersValues ==
    {Arr(<<Str("alice"), Str("bob")>>), Arr(<<Str("carol"), Str("dave")>>), Arr(<<>>),
     Arr(<<Str("alice"), Num(7)>>), Str("alice"), Undefined}

RepositoryValues == {Str("org/a"), Num(5), Undefined}

PrIdValues == {Num(1), Num(2), NumHalf(1), Str("1"), Undefined}

PrUrlValues == {Str("https://a/1"), Null}

PrTitleValues == {Str("Add A"), Num(0)}

TypeValues == {Str("feature"), Str("release"), Str("hotfix"), Str("bugfix"), Undefined}

\* every combination of the values above
AllInputs ==
    {Request(m, k, Body(rv, rp, id, url, ti, ty)) :
        m \in Methods, k \in ApiKeys, rv \in ReviewersValues, rp \in RepositoryValues,
        id \in PrIdValues, url \in PrUrlValues, ti \in PrTitleValues, ty \in TypeValues}

\* org/a#1, two reviewers with a handle
BodyA1 ==
    Body(Arr(<<Str("alice"), Str("bob")>>), Str("org/a"), Num(1), Str("https://a/1"),
         Str("Add A"), Str("feature"))

\* org/a#1 again, other title, URL and type, one reviewer with a handle
BodyA1Hotfix ==
    Body(Arr(<<Str("alice")>>), Str("org/a"), Num(1), Str("https://a/1/files"),
         Str("Add A (urgent)"), Str("hotfix"))

\* org/a#1 again, no reviewer with a handle
BodyA1NoHandle ==
    Body(Arr(<<Str("carol"), Str("erin"), Str("dave")>>), Str("org/a"), Num(1),
         Str("https://a/1"), Str("Add A"), Str("feature"))

\* org/a#2, one reviewer with a handle and one without
BodyA2 ==
    Body(Arr(<<Str("bob"), Str("carol")>>), Str("org/a"), Num(2), Str("https://a/2"),
         Str("Release B"), Str("release"))

\* org/a#2 without type
BodyA2NoType ==
    Body(Arr(<<Str("bob")>>), Str("org/a"), Num(2), Str("https://a/2"),
         Str("Release B"), Undefined)

Inputs ==
    {Request("POST", API_KEY, b) :
        b \in {BodyA1, BodyA1Hotfix, BodyA1NoHandle, BodyA2, BodyA2NoType}}
    \cup {Request("POST", Str("wrong"), BodyA1), Request("POST", Undefined, BodyA2),
          Request("GET", API_KEY, BodyA1)}

\* requests for one and the same pull request
RaceInputs == {Request("POST", API_KEY, b) : b \in {BodyA1, BodyA1Hotfix}}

---------------------------------------------------------------------------
(* Specifications *)

\* NumReq requests, interleaved at the awaits
Init == InitOf(1..NumReq)

Next == NextOf(1..NumReq, Inputs)

Spec == Init /\ [][Next]_vars

\* one request, of any shape
InitOne == InitOf({1})

NextOne == NextOf({1}, AllInputs)

SpecOne == InitOne /\ [][NextOne]_vars

\* RaceReq requests for the same pull request, interleaved at the awaits
InitRace == InitOf(1..RaceReq)

NextRace == NextOf(1..RaceReq, RaceInputs)

SpecRace == InitRace /\ [][NextRace]_vars

---------------------------------------------------------------------------
(* What the properties below read of a run *)

Runs == DOMAIN pc

Received(r) == pc[r] # "idle"

Finished(r) == pc[r] = "done"

\* the x-api-key header of r equals the configured secret
Authenticated(r) == req[r].apiKey = API_KEY

\* the sequence of the operations r has called
Ops(r) == [i \in DOMAIN calls[r] |-> calls[r][i].op]

\* the calls of r to `op`
CallsTo(r, op) == {i \in DOMAIN calls[r] : calls[r][i].op = op}

\* r has read no table, called no webhook and inserted nothing
NoSideEffect(r) == calls[r] = <<>>

\* the labels a category may take
Categories == {Str("feature"), Str("release"), Str("hotfix")}

\* the body's shape is the one the contract asks for, the category aside
WellTyped(b) ==
    /\ b.reviewers.t = "array"
    /\ \A i \in DOMAIN b.reviewers.elems : b.reviewers.elems[i].t = "string"
    /\ b.repository.t = "string"
    /\ b.pr_id.t = "number"
    /\ b.pr_url.t = "string"
    /\ b.pr_title.t = "string"

---------------------------------------------------------------------------
(* Properties of one request, of any shape (SpecOne) *)

\* C1: a request whose x-api-key header is missing or differs from the secret,
\* whatever its method and body, is answered 403 and has read no table, called
\* no webhook and inserted nothing: sent_pr is as it was at the start.
C1_ForbiddenNoSideEffect ==
    \A r \in Runs :
        (Received(r) /\ req[r].apiKey # Str("s3cret")) =>
            /\ Finished(r)
            /\ res[r].status = 403
            /\ NoSideEffect(r)
            /\ sent_pr \in InitialStores

\* a valid POST for a pull request not yet recorded, without the header, was refused
C1_Witness ==
    \E r \in Runs :
        /\ req[r].apiKey = Undefined
        /\ req[r].method = "POST"
        /\ WellTyped(req[r].body) /\ req[r].body.type \in Categories
        /\ sent_pr = <<>>
        /\ res[r].status = 403

\* C4: an authenticated POST whose body has a field of the wrong type (reviewers
\* not a sequence of strings; repository, pr_url or pr_title not a string; pr_id
\* not a number) or a category outside feature, release, hotfix is answered 400
\* and has read no table, called no webhook and inserted nothing.
C4_InvalidInputRejected ==
    \A r \in Runs :
        (/\ Received(r)
         /\ Authenticated(r)
         /\ req[r].method = "POST"
         /\ (~WellTyped(req[r].body) \/ req[r].body.type \notin Categories)) =>
            /\ Finished(r)
            /\ res[r] = Response(400, "Invalid input")
            /\ NoSideEffect(r)
            /\ sent_pr \in InitialStores

\* a body whose only fault is a pr_title that is not a string was refused
C4_Witness ==
    \E r \in Runs :
        /\ Authenticated(r)
        /\ req[r].method = "POST"
        /\ req[r].body.pr_title = Num(0)
        /\ WellTyped([req[r].body EXCEPT !.pr_title = Str("Add A")])
        /\ req[r].body.type \in Categories
        /\ res[r].status = 400

\* C9 as stated: every request whose method is not POST is answered 405 and has
\* no side effect.
C9_NonPostIs405 ==
    \A r \in Runs :
        (Received(r) /\ req[r].method # "POST") =>
            /\ Finished(r)
            /\ res[r].status = 405
            /\ NoSideEffect(r)

\* C9 as amended: every request that carries the right API key and whose method
\* is not POST is answered 405 and has no side effect; without the right key
\* the answer is 403, whatever the method.
C9_AuthenticatedNonPostIs405 ==
    \A r \in Runs :
        (Received(r) /\ req[r].method # "POST") =>
            /\ Finished(r)
            /\ res[r].status = IF Authenticated(r) THEN 405 ELSE 403
            /\ res[r].status = 405 => res[r].message = "Method not allowed"
            /\ NoSideEffect(r)
            /\ sent_pr \in InitialStores

\* an authenticated PUT with a valid body was answered 405
C9_Witness ==
    \E r \in Runs :
        /\ Authenticated(r)
        /\ req[r].method = "PUT"
        /\ WellTyped(req[r].body) /\ req[r].body.type \in Categories
        /\ res[r].status = 405

\* C10 as stated: an authenticated POST that omits the category and is otherwise
\* valid is not rejected as invalid input, and what it sends has the framing of
\* category feature.
C10_MissingCategoryAccepted ==
    \A r \in Runs :
        (/\ Received(r)
         /\ Authenticated(r)
         /\ req[r].method = "POST"
         /\ WellTyped(req[r].body)
         /\ req[r].body.type = Undefined) =>
            /\ res[r].status # 400
            /\ "fetch" \in {calls[r][i].op : i \in DOMAIN calls[r]} =>
                   slackMessage[r].color = "good"

\* C10 as amended: an authenticated POST that omits the category is rejected as
\* invalid input (400) before any side effect, however valid the rest; the
\* default framing (color good) is sent for category feature, and only for it.
C10_MissingCategoryRejected ==
    \A r \in Runs :
        /\ (/\ Received(r)
            /\ Authenticated(r)
            /\ req[r].method = "POST"
            /\ req[r].body.type = Undefined) =>
               /\ Finished(r)
               /\ res[r] = Response(400, "Invalid input")
               /\ NoSideEffect(r)
        /\ CallsTo(r, "fetch") # {} =>
               (slackMessage[r].color = "good" <=> req[r].body.type = Str("feature"))

\* an otherwise valid POST without category was refused
C10_Witness ==
    \E r \in Runs :
        /\ Authenticated(r)
        /\ req[r].method = "POST"
        /\ WellTyped(req[r].body)
        /\ req[r].body.type = Undefined
        /\ res[r].status = 400

---------------------------------------------------------------------------
(* Properties of interleaved requests (Spec, SpecRace) *)

\* an authenticated POST whose body passes the contract's shape
ValidPost(r) ==
    /\ Received(r)
    /\ Authenticated(r)
    /\ req[r].method = "POST"
    /\ WellTyped(req[r].body)
    /\ req[r].body.type \in Categories

\* the duplicate check of r has read sent_pr and found k rows for the pair of r
CheckFound(r, k) ==
    /\ Len(calls[r]) >= 1
    /\ calls[r][1].op = "select sent_pr"
    /\ calls[r][1].error # "FAILED"
    /\ calls[r][1].n = k

\* the chat handles that user_map gives the reviewers of body b
Handles(b) ==
    {user_map[i].slack_id.s :
        i \in {j \in DOMAIN user_map :
                 /\ \E k \in DOMAIN b.reviewers.elems :
                        b.reviewers.elems[k] = user_map[j].github_id
                 /\ user_map[j].slack_id.t = "string"
                 /\ user_map[j].slack_id.s # ""}}

\* the identity lookup of r has come back with its rows
Resolved(r) ==
    /\ Len(calls[r]) >= 2
    /\ calls[r][2].op = "select user_map"
    /\ calls[r][2].error = ""

\* the pieces of the text r composed
TextPieces(r) == {slackMessage[r].text[i] : i \in DOMAIN slackMessage[r].text}

\* the ids of the rows r has inserted
InsertedBy(r) ==
    {calls[r][i].n : i \in {j \in CallsTo(r, "insert sent_pr") : calls[r][j].error = ""}}

\* C2 as stated: an authenticated, valid POST whose (repository, pr_id) is
\* already in sent_pr when the duplicate check reads it is answered 200, calls
\* no webhook and inserts nothing (the duplicate check is its only call).
C2_SeenIsSkipped ==
    \A r \in Runs :
        (ValidPost(r) /\ \E k \in 1..Len(sent_pr) : CheckFound(r, k)) =>
            /\ Finished(r)
            /\ res[r].status = 200
            /\ Ops(r) = <<"select sent_pr">>
            /\ InsertedBy(r) = {}

\* C3: an authenticated, valid POST whose pair the duplicate check did not find
\* and of whose reviewers at least one has a chat handle, when both reads, the
\* webhook call and the insert succeed, is answered 201; it has called the
\* webhook exactly once, with a text that holds pr_title, pr_url and a mention
\* of every such handle, and has inserted exactly one row, whose repository,
\* pr_id, pr_url, pr_title and category are the request's.
C3_UnseenIsNotifiedAndRecorded ==
    \A r \in Runs :
        (/\ ValidPost(r)
         /\ Finished(r)
         /\ CheckFound(r, 0)
         /\ Handles(req[r].body) # {}
         /\ \A i \in DOMAIN calls[r] : calls[r][i].error \in {"", "PGRST116"}
         /\ \A i \in CallsTo(r, "fetch") : calls[r][i].n = 200) =>
            /\ res[r].status = 201
            /\ Ops(r) = <<"select sent_pr", "select user_map", "fetch", "insert sent_pr">>
            /\ req[r].body.pr_title.s \in TextPieces(r)
            /\ req[r].body.pr_url.s \in TextPieces(r)
            /\ \A h \in Handles(req[r].body) : ("<@" \o h \o ">") \in TextPieces(r)
            /\ Cardinality(InsertedBy(r)) = 1
            /\ \A id \in InsertedBy(r) :
                   /\ id \in DOMAIN sent_pr
                   /\ sent_pr[id].repository = req[r].body.repository
                   /\ sent_pr[id].pr_id = req[r].body.pr_id
                   /\ sent_pr[id].pr_url = req[r].body.pr_url
                   /\ sent_pr[id].pr_title = req[r].body.pr_title
                   /\ sent_pr[id].type = req[r].body.type

\* a request with two reviewers with a handle was answered 201 while another
\* request was under way
C3_Witness ==
    \E r \in Runs :
        /\ ValidPost(r)
        /\ CheckFound(r, 0)
        /\ Cardinality(Handles(req[r].body)) = 2
        /\ res[r].status = 201
        /\ \E p \in Runs : p # r /\ Received(p)

\* C5: an authenticated, valid POST whose pair the duplicate check did not find
\* and whose reviewers have no chat handle (a null or empty slack_id, or no row
\* at all), once the identity lookup has come back, is answered 400; it calls
\* no webhook and inserts nothing.
C5_NoRecipientsRejected ==
    \A r \in Runs :
        (/\ ValidPost(r)
         /\ CheckFound(r, 0)
         /\ Resolved(r)
         /\ Handles(req[r].body) = {}) =>
            /\ Finished(r)
            /\ res[r].status = 400
            /\ Ops(r) = <<"select sent_pr", "select user_map">>
            /\ InsertedBy(r) = {}

\* reviewers with a null slack_id, an empty one and no row: answered 400
C5_Witness ==
    \E r \in Runs :
        /\ ValidPost(r)
        /\ CheckFound(r, 0)
        /\ Resolved(r)
        /\ calls[r][2].n = 2
        /\ Len(req[r].body.reviewers.elems) = 3
        /\ res[r] = Response(400, "No valid Slack IDs found for reviewers")

\* C6: when the webhook answers with a status outside the success range, the
\* request is answered 500 and inserts no row: the fetch is its last call.
C6_DispatchFailureNotRecorded ==
    \A r \in Runs :
        (\E i \in CallsTo(r, "fetch") :
            calls[r][i].error = "" /\ calls[r][i].n \notin 200..299) =>
            /\ Finished(r)
            /\ res[r].status = 500
            /\ Ops(r) = <<"select sent_pr", "select user_map", "fetch">>
            /\ InsertedBy(r) = {}
            /\ \A id \in DOMAIN sent_pr : \E p \in Runs \ {r} :
                   id \in InsertedBy(p) \/ <<sent_pr[id]>> \in InitialStores

\* the webhook answered 500 to a request for a pull request no row records
C6_Witness ==
    \E r \in Runs :
        /\ \E i \in CallsTo(r, "fetch") : calls[r][i].n = 500
        /\ res[r] = Response(500, "Failed to send message to Slack")
        /\ Matching(sent_pr, req[r].body.repository, req[r].body.pr_id) = {}

\* C7: when the insert fails after a successful dispatch, the request is
\* answered 500, has called the webhook exactly once (with success, and nothing
\* is called after the insert to take the message back) and has added no row.
C7_InsertFailureAfterDispatch ==
    \A r \in Runs :
        (\E i \in CallsTo(r, "insert sent_pr") : calls[r][i].error # "") =>
            /\ Finished(r)
            /\ res[r].status = 500
            /\ Ops(r) = <<"select sent_pr", "select user_map", "fetch", "insert sent_pr">>
            /\ calls[r][3].error = "" /\ calls[r][3].n = 200
            /\ InsertedBy(r) = {}
            /\ \A id \in DOMAIN sent_pr : \E p \in Runs \ {r} :
                   id \in InsertedBy(p) \/ <<sent_pr[id]>> \in InitialStores

\* the insert failed for a request whose message went out, and no row records
\* its pull request
C7_Witness ==
    \E r \in Runs :
        /\ \E i \in CallsTo(r, "insert sent_pr") : calls[r][i].error = "FAILED"
        /\ \E i \in CallsTo(r, "fetch") : calls[r][i].n = 200
        /\ res[r] = Response(500, "Error inserting data")
        /\ Matching(sent_pr, req[r].body.repository, req[r].body.pr_id) = {}

\* C8: when the duplicate check fails with an error other than "no rows"
\* (PGRST116), or the identity lookup fails, the request is answered 500, and
\* the failed read is its last call: no webhook call, no insert.
C8_ReadFailureAborts ==
    \A r \in Runs :
        (\E i \in CallsTo(r, "select sent_pr") \cup CallsTo(r, "select user_map") :
            calls[r][i].error \notin {"", "PGRST116"}) =>
            /\ Finished(r)
            /\ res[r].status = 500
            /\ \/ Ops(r) = <<"select sent_pr">>
               \/ Ops(r) = <<"select sent_pr", "select user_map">>
            /\ calls[r][Len(calls[r])].error = "FAILED"
            /\ InsertedBy(r) = {}

\* one request stopped at a failed duplicate check, another at a failed
\* identity lookup
C8_Witness ==
    /\ \E r \in Runs :
           /\ Ops(r) = <<"select sent_pr">>
           /\ res[r] = Response(500, "Error checking existing PR")
    /\ \E r \in Runs :
           /\ Ops(r) = <<"select sent_pr", "select user_map">>
           /\ res[r] = Response(500, "Error retrieving Slack IDs")

---------------------------------------------------------------------------
(* The type of pr_id (SpecOne) *)

\* v is a number without fractional part
IsInteger(v) == v.t = "number" /\ ~v.frac

\* C11: pr_id is accepted only when it is an integer: an authenticated POST
\* whose pr_id is a number that is not an integer is answered 400 before any
\* side effect, and every row of sent_pr has an integer pr_id.
C11_NonIntegerPrIdRejected ==
    /\ \A r \in Runs :
           (/\ Received(r)
            /\ Authenticated(r)
            /\ req[r].method = "POST"
            /\ req[r].body.pr_id.t = "number"
            /\ ~IsInteger(req[r].body.pr_id)) =>
               /\ Finished(r)
               /\ res[r].status = 400
               /\ NoSideEffect(r)
    /\ \A id \in DOMAIN sent_pr : IsInteger(sent_pr[id].pr_id)

---------------------------------------------------------------------------
(* Requests for the same pull request (Spec, SpecRace) *)

\* r and p are for the same (repository, pr_id)
SamePair(r, p) ==
    /\ req[r].body.repository = req[p].body.repository
    /\ req[r].body.pr_id = req[p].body.pr_id

\* the calls of r to the webhook that were answered with success
Delivered(r) == {i \in CallsTo(r, "fetch") : calls[r][i].error = "" /\ calls[r][i].n = 200}

\* C12: nothing coordinates two requests for the same unseen pull request:
\* while one has passed its duplicate check and has not inserted yet (whether
\* or not it has called the webhook), and no row records the pair, the
\* duplicate check of the other can pass as well.  So both can pass before
\* either inserts, the webhook is called twice for the pull request and both
\* go on to the insert (the state C12_Witness).
C12_CheckNotCoordinated ==
    \A r, p \in Runs :
        (/\ r # p
         /\ ValidPost(r) /\ ValidPost(p) /\ SamePair(r, p)
         /\ CheckFound(r, 0)
         /\ InsertedBy(r) = {}
         /\ Matching(sent_pr, req[p].body.repository, req[p].body.pr_id) = {}
         /\ pc[p] = "checkExisting") =>
            ENABLED (CheckExisting(p) /\ pc'[p] = "resolve")

\* two requests for the same pull request have both found no row (so neither
\* had inserted when the other checked), have both had their message delivered
\* and have both inserted their row
C12_Witness ==
    \E r, p \in Runs :
        /\ r # p
        /\ ValidPost(r) /\ ValidPost(p) /\ SamePair(r, p)
        /\ CheckFound(r, 0) /\ CheckFound(p, 0)
        /\ Delivered(r) # {} /\ Delivered(p) # {}
        /\ CallsTo(r, "insert sent_pr") # {} /\ CallsTo(p, "insert sent_pr") # {}
        /\ InsertedBy(r) # {} /\ InsertedBy(p) # {}

\* C13: sent_pr holds at most one row for each (repository, pr_id).
C13_PairIsUnique ==
    \A i, j \in DOMAIN sent_pr :
        (sent_pr[i].repository = sent_pr[j].repository /\ sent_pr[i].pr_id = sent_pr[j].pr_id)
            => i = j

---------------------------------------------------------------------------
(* Requests handled one after another (SpecSeq) *)

\* no run is between its arrival and its response
Quiet == \A p \in DOMAIN pc : pc[p] \in {"idle", "done"}

InitSeq == InitOf(1..SeqReq)

\* a request arrives only when the one before it has been answered
NextSeq ==
    \E r \in 1..SeqReq :
        \/ Quiet /\ Receive(r, Inputs)
        \/ CheckExisting(r)
        \/ Resolve(r)
        \/ Dispatch(r)
        \/ Record(r)

SpecSeq == InitSeq /\ [][NextSeq]_vars

\* no read of a table and no insert has failed so far
NoStoreFailure ==
    \A r \in Runs : \A i \in DOMAIN calls[r] :
        calls[r][i].op # "fetch" => calls[r][i].error # "FAILED"

\* C14: with requests handled one after another and every store read and insert
\* succeeding, the webhook is called with success at most once per
\* (repository, pr_id): once a request for a pair has been answered 201, every
\* later request for the pair is answered 200 and calls no webhook.
C14_SequentialAtMostOnce ==
    NoStoreFailure =>
        \A r, p \in Runs :
            (r < p /\ ValidPost(r) /\ ValidPost(p) /\ SamePair(r, p)) =>
                /\ Cardinality(Delivered(r)) <= 1
                /\ Cardinality(Delivered(p)) <= 1
                /\ ~(Delivered(r) # {} /\ Delivered(p) # {})
                /\ (res[r].status = 201 /\ Finished(p)) =>
                       /\ res[p].status = 200
                       /\ CallsTo(p, "fetch") = {}

\* a request was answered 201 on an empty table and a later one for the same
\* pull request, with another title and other reviewers, was answered 200
C14_Witness ==
    /\ NoStoreFailure
    /\ \E r, p \in Runs :
           /\ r < p /\ ValidPost(r) /\ ValidPost(p) /\ SamePair(r, p)
           /\ req[r] # req[p]
           /\ CheckFound(r, 0)
           /\ res[r].status = 201
           /\ res[p].status = 200

\* r was answered with the dispatch failure or with the store-write failure
EndedInFailure(r) ==
    res[r] \in {Response(500, "Failed to send message to Slack"),
                Response(500, "Error inserting data")}

\* C15: after a request for a pair not yet recorded ended in a dispatch failure
\* or in a store-write failure, a later identical request (no other request
\* having recorded the pair meanwhile) is not short-circuited: its duplicate
\* check, when it succeeds, finds no row, the answer is not 200, and once its
\* reviewers are resolved it calls the webhook again.
C15_RetryAfterFailure ==
    \A r, p \in Runs :
        (/\ r < p
         /\ ValidPost(r)
         /\ req[p] = req[r]
         /\ CheckFound(r, 0)
         /\ EndedInFailure(r)
         /\ \A q \in Runs \ {r} : (q < p /\ SamePair(q, r)) => InsertedBy(q) = {}
         /\ Len(calls[p]) >= 1
         /\ calls[p][1].error # "FAILED") =>
            /\ CheckFound(p, 0)
            /\ res[p].status # 200
            /\ Resolved(p) => (pc[p] = "dispatch" \/ CallsTo(p, "fetch") # {})

\* the insert failed for a request whose message was delivered, and the same
\* request sent again had a second message delivered
C15_Witness ==
    \E r, p \in Runs :
        /\ r < p
        /\ req[p] = req[r]
        /\ res[r] = Response(500, "Error inserting data")
        /\ Delivered(r) # {}
        /\ Delivered(p) # {}

---------------------------------------------------------------------------
(* The order of the steps of one request (Spec) *)

\* the external calls of the handler, in the order of its code
Steps == <<"select sent_pr", "select user_map", "fetch", "insert sent_pr">>

\* where a run that has made k calls and is not answered yet stands
AwaitedStep(k) ==
    CASE k = 0 -> "checkExisting"
      [] k = 1 -> "resolve"
      [] k = 2 -> "dispatch"
      [] OTHER -> "record"

\* C16: within one request the external calls are made in the order
\* duplicate-check read, identity-map read, webhook call, insert, each at most
\* once and none before the API key, the method and the body have passed; a
\* call is made only if every earlier step succeeded (the identity-map read
\* only after a duplicate check that found no row, the webhook call only after
\* a lookup that gave at least one handle, the insert only after a success
\* answer of the webhook), and a request that is answered has stopped at the
\* step its answer names, with no call after it.
C16_StepsInOrder ==
    \A r \in Runs :
        LET k == Len(calls[r]) IN
        /\ k <= 4
        /\ Ops(r) = SubSeq(Steps, 1, k)
        /\ k >= 1 => ValidPost(r)
        /\ k >= 2 => calls[r][1].error = "PGRST116"
        /\ k >= 3 => calls[r][2].error = "" /\ Handles(req[r].body) # {}
        /\ k >= 4 => calls[r][3].error = "" /\ calls[r][3].n \in 200..299
        /\ (Received(r) /\ ~Finished(r)) => (k <= 3 /\ pc[r] = AwaitedStep(k) /\ res[r] = NoResponse)
        /\ Finished(r) =>
             CASE k = 0 -> res[r].status \in {403, 405} \/ res[r] = Response(400, "Invalid input")
               [] k = 1 -> \/ calls[r][1].error = "FAILED"
                              /\ res[r] = Response(500, "Error checking existing PR")
                           \/ calls[r][1].error = "" /\ res[r].status = 200
               [] k = 2 -> \/ calls[r][2].error # ""
                              /\ res[r] = Response(500, "Error retrieving Slack IDs")
                           \/ calls[r][2].error = "" /\ Handles(req[r].body) = {}
                              /\ res[r] = Response(400, "No valid Slack IDs found for reviewers")
               [] k = 3 -> \/ calls[r][3].error = "" /\ calls[r][3].n \notin 200..299
                              /\ res[r] = Response(500, "Failed to send message to Slack")
                           \/ calls[r][3].error # "" /\ res[r] = NoResponse
               [] OTHER -> \/ calls[r][4].error # ""
                              /\ res[r] = Response(500, "Error inserting data")
                           \/ calls[r][4].error = "" /\ res[r].status = 201

\* one request went through all four steps to 201 and another, for the same
\* pull request, stopped at the duplicate check with 200
C16_Witness ==
    \E r, p \in Runs :
        /\ Ops(r) = Steps /\ res[r].status = 201
        /\ SamePair(r, p)
        /\ Ops(p) = <<"select sent_pr">> /\ res[p].status = 200

---------------------------------------------------------------------------
(* The second handler of the file (lines 132-152): it checks no API key,    *)
(* reads no table and calls no webhook; it validates the body and inserts   *)

\* req.body as the second handler destructures it
LegacyBody(reviews, repository, pr_id, pr_url) ==
    [reviews |-> reviews, repository |-> repository, pr_id |-> pr_id, pr_url |-> pr_url]

\* the negation of the condition of the second handler's `if` that answers 400
ValidLegacyInput(b) ==
    /\ IsArray(b.reviews)
    /\ EveryString(b.reviews)
    /\ TypeOf(b.repository) = "string"
    /\ TypeOf(b.pr_id) = "number"
    /\ TypeOf(b.pr_url) = "string"

\* the row of insert([{ repository, pr_id, pr_url }]): the other columns are null
LegacyRow(id, b) ==
    [id |-> id, repository |-> b.repository, pr_id |-> b.pr_id,
     pr_url |-> b.pr_url, pr_title |-> Null, type |-> Null]

\* what the awaited insert of the second handler can resolve to
InsertLegacyRow(store, b) ==
    {[store |-> Append(store, LegacyRow(Len(store) + 1, b)), error |-> ""],
     [store |-> store, error |-> "FAILED"]}

\* a request of Q arrives as run r of the second handler: the method, the
\* validation
ReceiveLegacy(r, Q) ==
    /\ pc[r] = "idle"
    /\ \A p \in DOMAIN pc : p < r => pc[p] # "idle"
    /\ \E q \in Q :
         /\ req' = [req EXCEPT ![r] = q]
         /\ IF MethodIsPost(q)
            THEN IF ~ValidLegacyInput(q.body)
                 THEN Respond(r, 400, "Invalid input")
                 ELSE Goto(r, "recordLegacy")
            ELSE Respond(r, 405, "Method not allowed")
    /\ UNCHANGED <<sent_pr, user_map, slackMessage, calls>>

\* the insert of the second handler resolves: an error answers 500, otherwise
\* the answer is 201
RecordLegacy(r) ==
    /\ pc[r] = "recordLegacy"
    /\ \E result \in InsertLegacyRow(sent_pr, req[r].body) :
         /\ sent_pr' = result.store
         /\ Log(r, Call("insert sent_pr", result.error,
                        IF result.error = "" THEN Len(result.store) ELSE 0))
         /\ IF InsertFailed(result.error)
            THEN Respond(r, 500, "Error inserting data")
            ELSE Respond(r, 201, "Data inserted successfully")
    /\ UNCHANGED <<user_map, req, slackMessage>>

LegacyBodies ==
    {LegacyBody(Arr(<<Str("alice")>>), Str("org/a"), Num(1), Str("https://a/1")),
     LegacyBody(Arr(<<Str("bob")>>), Str("org/a"), Num(2), Str("https://a/2")),
     LegacyBody(Undefined, Str("org/a"), Num(1), Str("https://a/1")),
     LegacyBody(Arr(<<Str("alice")>>), Str("org/a"), Str("1"), Str("https://a/1"))}

LegacyInputs ==
    {Request(m, k, b) : m \in {"POST", "GET"}, k \in {API_KEY, Undefined}, b \in LegacyBodies}

\* NumReq requests to the second handler, interleaved at the await
InitLegacy == InitOf(1..NumReq)

NextLegacy ==
    \E r \in 1..NumReq :
        \/ ReceiveLegacy(r, LegacyInputs)
        \/ RecordLegacy(r)

SpecLegacy == InitLegacy /\ [][NextLegacy]_vars

\* C17: every row a request inserts was preceded by a successful webhook call
\* of the same request, so the requests that have inserted a row for a pair
\* are at most as many as those whose webhook call for the pair succeeded.
C17_RowsFollowDispatch ==
    \A r \in Runs :
        /\ \A i \in CallsTo(r, "insert sent_pr") :
               calls[r][i].error = "" => \E j \in Delivered(r) : j < i
        /\ Received(r) =>
               Cardinality({p \in Runs : Received(p) /\ SamePair(p, r) /\ InsertedBy(p) # {}})
                   <= Cardinality({p \in Runs : Received(p) /\ SamePair(p, r) /\ Delivered(p) # {}})

---------------------------------------------------------------------------
(* What a request changes in the tables (Spec) *)

\* C18: no step of a request changes or removes a row of sent_pr or writes to
\* user_map: a step leaves sent_pr as it is or appends one row to it; a
\* request appends at most one row; and a step that answers 403, 405, 400 or
\* 200 changes neither table, the request it answers having inserted nothing.
C18_OnlyAppends ==
    [][/\ user_map' = user_map
       /\ \/ sent_pr' = sent_pr
          \/ /\ Len(sent_pr') = Len(sent_pr) + 1
             /\ SubSeq(sent_pr', 1, Len(sent_pr)) = sent_pr
       /\ \A r \in Runs :
            /\ Cardinality(InsertedBy(r)') <= 1
            /\ (res[r] = NoResponse /\ res'[r].status \in {403, 405, 400, 200}) =>
                   /\ sent_pr' = sent_pr
                   /\ InsertedBy(r)' = {}]_vars

\* a row was appended behind the row of another pull request, which is as it
\* was, and a request for that other pull request was answered 200
C18_Witness ==
    /\ Len(sent_pr) = 2
    /\ <<sent_pr[1]>> \in InitialStores
    /\ sent_pr[2].pr_id # sent_pr[1].pr_id
    /\ \E r, p \in Runs :
           /\ InsertedBy(r) = {2}
           /\ res[p].status = 200

---------------------------------------------------------------------------
(* The payload as a function of its inputs (Spec) *)

\* r has composed its message
Composed(r) == slackMessage[r] # NoMessage

\* the color each category is to be framed with
ColorOf(category) ==
    CASE category = Str("feature") -> "good"
      [] category = Str("release") -> "warning"
      [] category = Str("hotfix") -> "danger"
      [] OTHER -> ""

\* the mentions ms, each followed by the honorific
Addressed(ms) ==
    [i \in 1..(2 * Len(ms)) |-> IF i % 2 = 1 THEN ms[(i + 1) \div 2] ELSE "-san, "]

\* the rest of the text of r, after the mentions
Rest(r) ==
    SubSeq(slackMessage[r].text, 2 * Cardinality(Handles(req[r].body)) + 1,
           Len(slackMessage[r].text))

\* C19: the framing of a composed payload is determined by the category alone
\* (feature: color good, release: color warning, hotfix: color danger; equal
\* categories give equal color, title, opening and closing phrase), and the
\* payload is a function of the category, the resolved mentions, repository,
\* pr_title and pr_url only: the text is the resolved mentions in some order,
\* each once, followed by a rest that is the same for any two requests that
\* agree on category, repository, pr_title and pr_url.
C19_PayloadIsFunctionOfInputs ==
    \A r \in Runs :
        Composed(r) =>
            /\ slackMessage[r].color = ColorOf(req[r].body.type)
            /\ \E f \in Orderings(Handles(req[r].body)) :
                   SubSeq(slackMessage[r].text, 1, 2 * Cardinality(Handles(req[r].body)))
                       = Addressed([i \in DOMAIN f |-> "<@" \o f[i] \o ">"])
            /\ Len(Rest(r)) = 9
            /\ Rest(r)[3] = req[r].body.repository.s
            /\ Rest(r)[5] = req[r].body.pr_title.s
            /\ Rest(r)[7] = req[r].body.pr_url.s
            /\ \A p \in Runs :
                   (Composed(p) /\ req[p].body.type = req[r].body.type) =>
                       /\ slackMessage[p].color = slackMessage[r].color
                       /\ slackMessage[p].title = slackMessage[r].title
                       /\ Rest(p)[1] = Rest(r)[1]
                       /\ Rest(p)[9] = Rest(r)[9]
                       /\ (/\ req[p].body.repository = req[r].body.repository
                           /\ req[p].body.pr_title = req[r].body.pr_title
                           /\ req[p].body.pr_url = req[r].body.pr_url) => Rest(p) = Rest(r)
                       /\ (/\ Rest(p) = Rest(r)
                           /\ SubSeq(slackMessage[p].text, 1, Len(slackMessage[p].text) - 9)
                                = SubSeq(slackMessage[r].text, 1, Len(slackMessage[r].text) - 9))
                              => slackMessage[p] = slackMessage[r]

\* a hotfix request and a feature request, with other reviewers, have both sent
\* their payload, one framed danger and one framed good
C19_Witness ==
    \E r, p \in Runs :
        /\ req[r].body.type = Str("hotfix") /\ req[p].body.type = Str("feature")
        /\ CallsTo(r, "fetch") # {} /\ CallsTo(p, "fetch") # {}
        /\ slackMessage[r].color = "danger" /\ slackMessage[p].color = "good"
        /\ Cardinality(Handles(req[p].body)) = 2

=============================================================================
